---- MODULE Spec2Model ----
(***************************************************************************)
(* Model of automation_tools/file_organizer.py: the FileOrganizer class    *)
(* (construction, classification, organize) acting on a directory tree.    *)
(*                                                                         *)
(* File names are real strings; suffix/stem/lower are computed character   *)
(* by character as pathlib and str do.  The directory tree is the root's   *)
(* regular files (name -> content id) and its subdirectories               *)
(* (name -> (name -> content id)).                                         *)
(*                                                                         *)
(* Also modelled: merge_pdfs of automation_tools/pdf_merger.py (the order  *)
(* in which documents are appended), resize_images of                      *)
(* automation_tools/image_resizer.py (the paths its copies are written     *)
(* to), and organize beside another process writing into the same tree.    *)
(***************************************************************************)
EXTENDS Integers, Sequences, FiniteSets, TLC

VARIABLES
    pathKind,     \* what the constructor's resolved path is: "missing", "file", "dir"
    instance,     \* TRUE once FileOrganizer.__init__ has returned
    error,        \* the exception that left the last call, or "none"
    root,         \* regular files of the target directory: name -> content id
    subdirs,      \* subdirectories of the target directory: name -> (name -> content id)
    pc,           \* "new", "failed", "idle", "loop", "move", "done", "raised";
                  \* "classify", "classified" for a direct _get_category call
    dry_run,      \* organize's argument
    pending,      \* entries of the iterdir() listing not yet visited
    item,         \* loop variable: the entry being processed
    category,     \* local of the loop body (line 118)
    dest_path,    \* local of the loop body: the file name part of dest_path
    moved_files,  \* the mapping organize builds and returns
    before,       \* history: the tree when the current organize call started
    failed,       \* history: names whose shutil.move raised in the current call
    attempts,     \* history: name -> number of shutil.move calls in the current call
    dests,        \* history: name -> destination name, for the moves that succeeded
    log,          \* history: finished organize calls and files placed between them
    budget,       \* environment: organize calls, injected failures, placed files left
    arg,          \* a direct _get_category call: the table's order and the extension
    ret,          \* its return value, "" before the call
    input_paths,  \* merge_pdfs: its argument, a list of paths (tuples of parts)
    recursive,    \* merge_pdfs: its argument
    path_no,      \* merge_pdfs: position of the for loop in input_paths
    pdf_files,    \* add_directory: the entries of sorted(pdf_files) not yet visited
    merger,       \* PdfMerger: the files appended so far, in order, each with the
                  \* position of the path it came from (history)
    output_path,  \* merge_pdfs: its argument, a path
    pdf_disk,     \* the disk of merge_pdfs: files (path -> content) and dirs
    merge_error,  \* the exception that left merge_pdfs, or "none"
    paths,        \* resize_images: its argument, a list of paths (tuples of parts)
    resizer,      \* resize_images: the ImageResizer object (output_dir, output_format)
    resize_recursive, \* resize_images: its argument recursive
    resize_kwargs, \* resize_images: its size arguments (size, width, height, scale)
    path_ix,      \* resize_images: position of the for loop in paths
    image_paths,  \* resize_directory: the entries of image_paths not yet visited
    all_resized,  \* resize_images: the list it returns
    images,       \* the disk of resize_images: file path -> content
    image_dirs,   \* the disk of resize_images: its directories
    originals     \* history: images when resize_images was called

vars == <<pathKind, instance, error, root, subdirs, pc, dry_run, pending, item,
          category, dest_path, moved_files, before, failed, attempts, dests, log,
          budget, arg, ret, input_paths, recursive, path_no, pdf_files, merger,
          output_path, pdf_disk, merge_error,
          paths, resizer, resize_recursive, resize_kwargs, path_ix, image_paths, all_resized,
          images, image_dirs, originals>>

fsVars == <<root, subdirs>>
callVars == <<dry_run, pending, item, category, dest_path, moved_files>>
histVars == <<before, failed, attempts, dests>>
classifyVars == <<arg, ret>>
organizerVars == <<pathKind, instance, error, fsVars, callVars, histVars, log,
                   budget, classifyVars>>
mergeVars == <<input_paths, recursive, path_no, pdf_files, merger, output_path,
               pdf_disk, merge_error>>
resizeVars == <<paths, resizer, resize_kwargs, resize_recursive, path_ix, image_paths,
                all_resized, images, image_dirs, originals>>
toolVars == <<mergeVars, resizeVars>>

----------------------------------------------------------------------------
(* Bounds of the model *)

MaxRootFiles == 3    \* regular files in the root of an initial tree
MaxRuns == 2         \* organize calls in one behaviour
MaxFailures == 1     \* failures the environment injects in one behaviour
MaxRepeatRuns == 3   \* organize calls in the repeat scenario
MaxPlaced == 2       \* files put into the root in the repeat scenario
MaxInputPaths == 2   \* paths in the list given to merge_pdfs
MaxResizePaths == 2  \* paths in the list given to resize_images
MaxOtherWrites == 1  \* files another process writes while organize runs

----------------------------------------------------------------------------
(* Strings *)

UpperCase == "ABCDEFGHIJKLMNOPQRSTUVWXYZ"
LowerCase == "abcdefghijklmnopqrstuvwxyz"

CharAt(s, i) == SubSeq(s, i, i)

\* str.lower() on one character
LowerChar(c) ==
    IF \E i \in 1..Len(UpperCase) : CharAt(UpperCase, i) = c
    THEN CharAt(LowerCase, CHOOSE i \in 1..Len(UpperCase) : CharAt(UpperCase, i) = c)
    ELSE c

RECURSIVE lower(_)
lower(s) == IF Len(s) = 0 THEN "" ELSE LowerChar(CharAt(s, 1)) \o lower(Tail(s))

\* str.rfind('.') + 1: the 1-based position of the last dot, 0 when there is none
RfindDot(s) ==
    LET dots == {i \in 1..Len(s) : CharAt(s, i) = "."}
    IN  IF dots = {} THEN 0 ELSE CHOOSE i \in dots : \A j \in dots : j <= i

\* PurePath.suffix: from the last dot, unless the dot leads or ends the name
suffix(name) ==
    LET i == RfindDot(name)
    IN  IF i > 1 /\ i < Len(name) THEN SubSeq(name, i, Len(name)) ELSE ""

\* PurePath.stem: the name without its suffix
stem(name) ==
    LET i == RfindDot(name)
    IN  IF i > 1 /\ i < Len(name) THEN SubSeq(name, 1, i - 1) ELSE name

\* item.name.startswith('.')
IsHidden(name) == Len(name) > 0 /\ CharAt(name, 1) = "."

----------------------------------------------------------------------------
(* Classification *)

FILE_TYPES == <<
    [category |-> "images",
     extensions |-> {".jpg", ".jpeg", ".png", ".gif", ".bmp", ".svg", ".webp"}],
    [category |-> "documents",
     extensions |-> {".pdf", ".doc", ".docx", ".txt", ".xlsx", ".pptx"}],
    [category |-> "videos",
     extensions |-> {".mp4", ".mov", ".avi", ".mkv", ".wmv"}],
    [category |-> "audio",
     extensions |-> {".mp3", ".wav", ".ogg", ".m4a"}],
    [category |-> "archives",
     extensions |-> {".zip", ".rar", ".7z", ".tar", ".gz"}],
    [category |-> "code",
     extensions |-> {".py", ".js", ".html", ".css", ".java", ".cpp", ".c", ".h"}],
    [category |-> "executables",
     extensions |-> {".exe", ".msi", ".dmg", ".pkg", ".deb"}] >>

TableCategories == {FILE_TYPES[i].category : i \in 1..Len(FILE_TYPES)}
Categories == TableCategories \cup {"other"}
TableExtensions == UNION {FILE_TYPES[i].extensions : i \in 1..Len(FILE_TYPES)}

\* the loop of _get_category over a table given as a sequence: first match wins
RECURSIVE LookupFrom(_, _, _)
LookupFrom(types, i, extension) ==
    IF i > Len(types) THEN "other"
    ELSE IF extension \in types[i].extensions THEN types[i].category
    ELSE LookupFrom(types, i + 1, extension)

\* mutant: the loop misses the first entry of the table
CategoryIn_SkipFirst(types, extension) == LookupFrom(types, 2, extension)

CategoryIn(types, extension) == LookupFrom(types, 1, extension)

_get_extension(name) == lower(suffix(name))

_get_category(extension) == CategoryIn(FILE_TYPES, extension)

\* the names files of the root have in this model, in the order that numbers
\* the contents of the initial trees
NameOrder == <<"photo.jpg", "photo_1.jpg", "b.JPG", "README", ".env", "images",
               "a.jpg", "report.pdf", "notes.txt", "archive.zip", "script.py">>

\* lines 117-118 for each of those names: the category of the item, computed
\* once by _get_extension and _get_category and looked up by the actions
CategoryOf ==
    [n \in {NameOrder[i] : i \in 1..Len(NameOrder)} |->
        _get_category(_get_extension(n))]

----------------------------------------------------------------------------
(* The directory tree *)

EmptyDir == [n \in {} |-> 0]

\* line 138: shutil.move takes the source out of its directory
Remove(f, n) == [m \in DOMAIN f \ {n} |-> f[m]]

\* Path.is_dir() of a root entry
IsDir(sd, name) == name \in DOMAIN sd

\* category_dir.exists(): a subdirectory or a regular file of that name
CategoryDirExists(r, sd, cat) == cat \in DOMAIN sd \/ cat \in DOMAIN r

\* mutant: the existence check of line 131 finds every name free
DestExists_Never(sd, cat, name) == FALSE

\* dest_path.exists(): false too when category_dir is not a directory
DestExists(sd, cat, name) == cat \in DOMAIN sd /\ name \in DOMAIN sd[cat]

\* mutant: hidden entries are not skipped
ShouldSkip_DirsOnly(sd, name) == IsDir(sd, name)

\* line 113: entries the loop skips
ShouldSkip(sd, name) == IsDir(sd, name) \/ IsHidden(name)

\* the root files one organize call processes
Organizable(r) == {n \in DOMAIN r : ~IsHidden(n)}

\* mutant: the directory is created in a dry run too
NeedsMkdir_IgnoringDryRun(r, sd, cat, dry) == ~CategoryDirExists(r, sd, cat)

\* line 122: whether the loop body creates the category directory
NeedsMkdir(r, sd, cat, dry) == ~CategoryDirExists(r, sd, cat) /\ ~dry

\* mutant: the counter is written one too high
Candidate_OffByOne(name, counter) ==
    stem(name) \o "_" \o ToString(counter + 1) \o suffix(name)

\* line 132: the candidate name for a counter value
Candidate(name, counter) == stem(name) \o "_" \o ToString(counter) \o suffix(name)

\* lines 130-133: the while loop, from the candidate it is testing
RECURSIVE ResolveFrom(_, _, _, _, _, _)
ResolveFrom(sd, cat, name, candidate, counter, dry) ==
    IF DestExists(sd, cat, candidate) /\ ~dry
    THEN ResolveFrom(sd, cat, name, Candidate(name, counter), counter + 1, dry)
    ELSE candidate

\* mutant: the while loop is left out, the name is taken as it is
DestName_NoLoop(sd, cat, name, dry) == name

\* lines 127-133: the file name of dest_path
DestName(sd, cat, name, dry) == ResolveFrom(sd, cat, name, name, 1, dry)

\* mutant: the "other" key is not added
EmptyResult_NoOther == [c \in TableCategories |-> <<>>]

\* lines 107-108: the mapping organize starts from
EmptyResult == [c \in Categories |-> <<>>]

\* lines 139, 144: moved_files[category].append(item.name)
Record(mf, cat, name) == [mf EXCEPT ![cat] = Append(@, name)]

\* line 139: the apply branch lists item.name, the file's original name
MovedName(it, dest) == it

\* lines 141-142: the except clause logs; the mapping is left as it was
ResultAfterError(mf, cat, name) == mf

\* mutant: the except clause ends the loop
PendingAfterError_Break(p) == {}

\* lines 141-142 and 111: after the except clause the loop goes on with the
\* entries not yet visited
PendingAfterError(p) == p

\* mutant: the category directory is made anew for the arriving file
MoveInto_Recreate(sd, cat, name, content) ==
    [sd EXCEPT ![cat] = [m \in {name} |-> content]]

\* line 138, shutil.move onto dest: os.rename puts the file under the name,
\* replacing a regular file already there
MoveInto(sd, cat, name, content) ==
    [sd EXCEPT ![cat] = [m \in DOMAIN @ \cup {name} |-> IF m = name THEN content ELSE @[m]]]

Tree == [root |-> root, subdirs |-> subdirs]

SeqToSet(s) == {s[i] : i \in 1..Len(s)}

----------------------------------------------------------------------------
(* Construction: __init__ and _validate_directory *)

\* mutant: only existence is checked
ValidationError_ExistsOnly(kind) ==
    IF kind = "missing" THEN "FileNotFoundError" ELSE "none"

\* lines 62-65: the exception _validate_directory raises, "none" when it returns
ValidationError(kind) ==
    IF kind = "missing" THEN "FileNotFoundError"
    ELSE IF kind # "dir" THEN "NotADirectoryError"
    ELSE "none"

Construct ==
    /\ pc = "new"
    /\ error' = ValidationError(pathKind)
    /\ instance' = (ValidationError(pathKind) = "none")
    /\ pc' = IF ValidationError(pathKind) = "none" THEN "idle" ELSE "failed"
    /\ UNCHANGED <<toolVars, pathKind, fsVars, callVars, histVars, log, budget, classifyVars>>

----------------------------------------------------------------------------
(* organize *)

CallRecord(outcome, mf) ==
    [kind |-> "organize", dry_run |-> dry_run, outcome |-> outcome,
     before |-> before, after |-> Tree, result |-> mf,
     failed |-> failed, dests |-> dests]

\* lines 102-111: the mapping is initialised and the directory listed
StartOrganize(dry) ==
    /\ instance
    /\ pc \in {"idle", "done", "raised"}
    /\ budget.runs > 0
    /\ budget' = [budget EXCEPT !.runs = @ - 1]
    /\ dry_run' = dry
    /\ moved_files' = EmptyResult
    /\ pending' = DOMAIN root \cup DOMAIN subdirs
    /\ item' = ""
    /\ category' = ""
    /\ dest_path' = ""
    /\ before' = Tree
    /\ failed' = {}
    /\ attempts' = [n \in DOMAIN root |-> 0]
    /\ dests' = EmptyDir
    /\ error' = "none"
    /\ pc' = "loop"
    /\ UNCHANGED <<toolVars, pathKind, instance, fsVars, log, classifyVars>>

\* line 111: iterdir() raises (the directory cannot be listed); organize has no
\* handler, the exception leaves the call
IterdirRaises(dry) ==
    /\ instance
    /\ pc \in {"idle", "done", "raised"}
    /\ budget.runs > 0
    /\ budget.failures > 0
    /\ budget' = [budget EXCEPT !.runs = @ - 1, !.failures = @ - 1]
    /\ dry_run' = dry
    /\ moved_files' = EmptyResult
    /\ pending' = {}
    /\ item' = ""
    /\ category' = ""
    /\ dest_path' = ""
    /\ before' = Tree
    /\ failed' = {}
    /\ attempts' = [n \in DOMAIN root |-> 0]
    /\ dests' = EmptyDir
    /\ error' = "OSError"
    /\ pc' = "raised"
    /\ log' = Append(log, [kind |-> "organize", dry_run |-> dry, outcome |-> "raised",
                           before |-> Tree, after |-> Tree, result |-> EmptyResult,
                           failed |-> {}, dests |-> EmptyDir])
    /\ UNCHANGED <<toolVars, pathKind, instance, fsVars, classifyVars>>

\* lines 113-114: a directory or a hidden entry is passed over
Skip(it) ==
    /\ pc = "loop"
    /\ it \in pending
    /\ ShouldSkip(subdirs, it)
    /\ pending' = pending \ {it}
    /\ UNCHANGED <<toolVars, pathKind, instance, error, fsVars, pc, dry_run, item, category,
                   dest_path, moved_files, histVars, log, budget, classifyVars>>

\* lines 117-133: classify, create the category directory, choose dest_path
Prepare(it) ==
    /\ pc = "loop"
    /\ it \in pending
    /\ ~ShouldSkip(subdirs, it)
    /\ LET cat == CategoryOf[it]
           sd  == IF NeedsMkdir(root, subdirs, cat, dry_run)
                  THEN [d \in DOMAIN subdirs \cup {cat} |->
                            IF d = cat THEN EmptyDir ELSE subdirs[d]]
                  ELSE subdirs
       IN  /\ subdirs' = sd
           /\ category' = cat
           /\ dest_path' = DestName(sd, cat, it, dry_run)
    /\ item' = it
    /\ pending' = pending \ {it}
    /\ pc' = "move"
    /\ UNCHANGED <<toolVars, pathKind, instance, error, root, dry_run, moved_files, histVars,
                   log, budget, classifyVars>>

\* line 123: mkdir raises; it is outside the try, the exception leaves the call
MkdirRaises(it) ==
    /\ pc = "loop"
    /\ it \in pending
    /\ ~ShouldSkip(subdirs, it)
    /\ NeedsMkdir(root, subdirs, CategoryOf[it], dry_run)
    /\ budget.failures > 0
    /\ budget' = [budget EXCEPT !.failures = @ - 1]
    /\ item' = it
    /\ category' = CategoryOf[it]
    /\ pending' = pending \ {it}
    /\ error' = "OSError"
    /\ pc' = "raised"
    /\ log' = Append(log, CallRecord("raised", moved_files))
    /\ UNCHANGED <<toolVars, pathKind, instance, fsVars, dry_run, dest_path, moved_files,
                   histVars, classifyVars>>

\* lines 136-140: shutil.move succeeds
Move ==
    /\ pc = "move"
    /\ ~dry_run
    /\ category \in DOMAIN subdirs
    /\ root' = Remove(root, item)
    /\ subdirs' = MoveInto(subdirs, category, dest_path, root[item])
    /\ moved_files' = Record(moved_files, category, MovedName(item, dest_path))
    /\ attempts' = [attempts EXCEPT ![item] = @ + 1]
    /\ dests' = [n \in DOMAIN dests \cup {item} |->
                    IF n = item THEN dest_path ELSE dests[n]]
    /\ pc' = "loop"
    /\ UNCHANGED <<toolVars, pathKind, instance, error, dry_run, pending, item, category,
                   dest_path, before, failed, log, budget, classifyVars>>

\* lines 138, 141-142: shutil.move raises because category_dir is a regular file
\* (rename and the fallback copy both fail); nothing has changed on disk
MoveBlocked ==
    /\ pc = "move"
    /\ ~dry_run
    /\ category \notin DOMAIN subdirs
    /\ moved_files' = ResultAfterError(moved_files, category, item)
    /\ pending' = PendingAfterError(pending)
    /\ attempts' = [attempts EXCEPT ![item] = @ + 1]
    /\ failed' = failed \cup {item}
    /\ pc' = "loop"
    /\ UNCHANGED <<toolVars, pathKind, instance, error, fsVars, dry_run, item, category,
                   dest_path, before, dests, log, budget, classifyVars>>

\* lines 138, 141-142: shutil.move raises for a cause outside the program.
\* "error": rename and the fallback copy fail, nothing has changed on disk.
\* "copied": rename fails, the fallback copy is written, removing the source fails.
MoveFails(how) ==
    /\ pc = "move"
    /\ ~dry_run
    /\ category \in DOMAIN subdirs
    /\ budget.failures > 0
    /\ budget' = [budget EXCEPT !.failures = @ - 1]
    /\ subdirs' = IF how = "copied"
                  THEN MoveInto(subdirs, category, dest_path, root[item])
                  ELSE subdirs
    /\ moved_files' = ResultAfterError(moved_files, category, item)
    /\ pending' = PendingAfterError(pending)
    /\ attempts' = [attempts EXCEPT ![item] = @ + 1]
    /\ failed' = failed \cup {item}
    /\ pc' = "loop"
    /\ UNCHANGED <<toolVars, pathKind, instance, error, root, dry_run, item, category,
                   dest_path, before, dests, log, classifyVars>>

\* lines 143-145: the dry run records the name and touches nothing
WouldMove ==
    /\ pc = "move"
    /\ dry_run
    /\ moved_files' = Record(moved_files, category, item)
    /\ pc' = "loop"
    /\ UNCHANGED <<toolVars, pathKind, instance, error, fsVars, dry_run, pending, item,
                   category, dest_path, histVars, log, budget, classifyVars>>

\* lines 147-154: the listing is exhausted, the mapping is returned
Return ==
    /\ pc = "loop"
    /\ pending = {}
    /\ pc' = "done"
    /\ log' = Append(log, CallRecord("returned", moved_files))
    /\ UNCHANGED <<toolVars, pathKind, instance, error, fsVars, callVars, histVars, budget,
                   classifyVars>>

----------------------------------------------------------------------------
(* The environment between calls *)

Names == {"photo.jpg", "photo_1.jpg", "b.JPG", "README", ".env", "images"}

ScenarioNames == {"a.jpg", "b.JPG", "report.pdf", "notes.txt", "archive.zip",
                  "script.py", "README"}

PlaceNames == {"photo.jpg", "README"}

RootContent(n) == CHOOSE i \in 1..Len(NameOrder) : NameOrder[i] = n

RootOf(names) == [n \in names |-> RootContent(n)]

OldPhoto == Len(NameOrder) + 1
OldPhoto1 == Len(NameOrder) + 2
OldStuff == Len(NameOrder) + 3

\* subdirectories an initial tree may already hold
InitSubdirs ==
    { EmptyDir,
      [d \in {"images"} |-> [n \in {"photo.jpg"} |-> OldPhoto]],
      [d \in {"images"} |->
          [n \in {"photo.jpg", "photo_1.jpg"} |->
              IF n = "photo.jpg" THEN OldPhoto ELSE OldPhoto1]],
      [d \in {"stuff", "other"} |->
          IF d = "stuff" THEN [n \in {"photo.jpg"} |-> OldStuff] ELSE EmptyDir] }

InitTrees ==
    { [root |-> RootOf(ns), subdirs |-> sd] :
        ns \in {x \in SUBSET Names : Cardinality(x) <= MaxRootFiles},
        sd \in InitSubdirs }

\* a content id no file of the tree has had
FreshContent == Len(NameOrder) + 3 + Len(log) + 1

\* between two calls the user puts a file into the root
PlaceFile(n) ==
    /\ instance
    /\ pc \in {"idle", "done", "raised"}
    /\ budget.placed > 0
    /\ budget.runs > 0
    /\ n \notin DOMAIN root \cup DOMAIN subdirs
    /\ budget' = [budget EXCEPT !.placed = @ - 1]
    /\ root' = [m \in DOMAIN root \cup {n} |-> IF m = n THEN FreshContent ELSE root[m]]
    /\ log' = Append(log, [kind |-> "place", name |-> n])
    /\ pc' = "idle"
    /\ UNCHANGED <<toolVars, pathKind, instance, error, subdirs, callVars, histVars, classifyVars>>

----------------------------------------------------------------------------
(* Specifications *)

\* FILE_TYPES.items() in another order of examination
TypesIn(order) == [i \in 1..Len(order) |-> FILE_TYPES[order[i]]]

TableOrder == [i \in 1..Len(FILE_TYPES) |-> i]

Rotate(order, k) ==
    [i \in 1..Len(order) |-> order[((i + k - 1) % Len(order)) + 1]]

Reverse(order) == [i \in 1..Len(order) |-> order[Len(order) + 1 - i]]

\* every rotation of the table's order and of its reverse: each pair of
\* categories is examined both ways round, each category first and last
Orders ==
    {Rotate(TableOrder, k) : k \in 0..(Len(FILE_TYPES) - 1)}
    \cup {Rotate(Reverse(TableOrder), k) : k \in 0..(Len(FILE_TYPES) - 1)}

\* extensions _get_category is called on: the table's, and some of no table
OtherExtensions == {"", ".", ".xyz", ".JPG", "jpg", ".jp", ".jpgg", ".tar.gz", "other"}

\* a direct call of _get_category
GetCategoryCall ==
    /\ pc = "classify"
    /\ ret' = CategoryIn(TypesIn(arg.order), arg.extension)
    /\ pc' = "classified"
    /\ UNCHANGED <<toolVars, pathKind, instance, error, fsVars, callVars, histVars, log,
                   budget, arg>>

\* no merge_pdfs call is under way
InitMergerIdle ==
    /\ input_paths = <<>>
    /\ recursive = FALSE
    /\ path_no = 0
    /\ pdf_files = <<>>
    /\ merger = <<>>
    /\ output_path = <<>>
    /\ pdf_disk = [files |-> <<>>, dirs |-> {}]
    /\ merge_error = "none"

\* no resize_images call is under way
InitResizerIdle ==
    /\ paths = <<>>
    /\ resizer = [output_dir |-> <<>>, output_format |-> ""]
    /\ resize_recursive = FALSE
    /\ resize_kwargs = [size |-> <<>>, width |-> 0, height |-> 0, scale |-> 0]
    /\ path_ix = 0
    /\ image_paths = {}
    /\ all_resized = <<>>
    /\ images = <<>>
    /\ image_dirs = {}
    /\ originals = <<>>

InitTools == InitMergerIdle /\ InitResizerIdle

InitCall ==
    /\ instance = FALSE
    /\ error = "none"
    /\ dry_run = FALSE
    /\ pending = {}
    /\ item = ""
    /\ category = ""
    /\ dest_path = ""
    /\ moved_files = EmptyDir
    /\ before = [root |-> EmptyDir, subdirs |-> EmptyDir]
    /\ failed = {}
    /\ attempts = EmptyDir
    /\ dests = EmptyDir
    /\ log = <<>>

\* the trees organize is started on, with what the environment may do
InitWorlds ==
    { [tree |-> t, budget |-> [runs |-> MaxRuns, failures |-> MaxFailures,
                               placed |-> 0]] : t \in InitTrees }
    \cup
    { [tree |-> [root |-> RootOf(ScenarioNames), subdirs |-> EmptyDir],
       budget |-> [runs |-> MaxRuns, failures |-> 0, placed |-> 0]] }

Init ==
    /\ InitCall
    /\ InitTools
    /\ pc = "new"
    /\ arg = [order |-> TableOrder, extension |-> ""]
    /\ ret = ""
    /\ pathKind \in {"missing", "file", "dir"}
    /\ \E w \in InitWorlds :
          /\ DOMAIN w.tree.root \cap DOMAIN w.tree.subdirs = {}
          /\ root = IF pathKind = "dir" THEN w.tree.root ELSE EmptyDir
          /\ subdirs = IF pathKind = "dir" THEN w.tree.subdirs ELSE EmptyDir
          /\ budget = IF pathKind = "dir" THEN w.budget
                      ELSE [runs |-> MaxRuns, failures |-> 0, placed |-> 0]

\* the repeat scenario: the same name is put into the root before each call
InitRepeat ==
    /\ InitCall
    /\ InitTools
    /\ pc = "new"
    /\ arg = [order |-> TableOrder, extension |-> ""]
    /\ ret = ""
    /\ pathKind = "dir"
    /\ root \in {RootOf({"photo.jpg"}), RootOf({"photo.jpg", "photo_1.jpg"}),
                 RootOf({"images", "photo.jpg"})}
    /\ subdirs \in {EmptyDir, [d \in {"images"} |-> [n \in {"photo_1.jpg"} |-> OldPhoto1]]}
    /\ DOMAIN root \cap DOMAIN subdirs = {}
    /\ budget = [runs |-> MaxRepeatRuns, failures |-> MaxFailures,
                 placed |-> MaxPlaced]

\* every step of the organizer but the one from the loop's head to the move
OrganizerSteps ==
    \/ Construct
    \/ \E dry \in BOOLEAN : StartOrganize(dry)
    \/ \E dry \in BOOLEAN : IterdirRaises(dry)
    \/ \E it \in pending : Skip(it)
    \/ \E it \in pending : MkdirRaises(it)
    \/ Move
    \/ MoveBlocked
    \/ \E how \in {"error", "copied"} : MoveFails(how)
    \/ WouldMove
    \/ Return

\* with exclusive access lines 117-133 are one step
Next ==
    \/ OrganizerSteps
    \/ \E it \in pending : Prepare(it)

Spec == Init /\ [][Next]_vars

NextRepeat ==
    \/ Next
    \/ \E n \in PlaceNames : PlaceFile(n)

SpecRepeat == InitRepeat /\ [][NextRepeat]_vars

\* classification alone: _get_category on every extension, under every order
InitClassify ==
    /\ InitCall
    /\ InitTools
    /\ pc = "classify"
    /\ pathKind = "dir"
    /\ root = EmptyDir
    /\ subdirs = EmptyDir
    /\ budget = [runs |-> 0, failures |-> 0, placed |-> 0]
    /\ arg \in [order : Orders, extension : TableExtensions \cup OtherExtensions]
    /\ ret = ""

NextClassify == GetCategoryCall

SpecClassify == InitClassify /\ [][NextClassify]_vars

----------------------------------------------------------------------------
(* pdf_merger.py: merge_pdfs, PDFMerger.add_file, PDFMerger.add_directory,  *)
(* PDFMerger.merge.  A path is the tuple of its parts, as pathlib compares  *)
(* paths.  A file's content is whether it is a PDF and the documents it is  *)
(* made of, in order.                                                       *)

\* the characters of the names used here, in code point order
CodePoints == ".0123456789ABCDEFGHIJKLMNOPQRSTUVWXYZ_abcdefghijklmnopqrstuvwxyz"

Ord(c) == CHOOSE i \in 1..Len(CodePoints) : CharAt(CodePoints, i) = c

\* str.__lt__
RECURSIVE StrLess(_, _)
StrLess(a, b) ==
    IF Len(b) = 0 THEN FALSE
    ELSE IF Len(a) = 0 THEN TRUE
    ELSE IF CharAt(a, 1) = CharAt(b, 1) THEN StrLess(Tail(a), Tail(b))
    ELSE Ord(CharAt(a, 1)) < Ord(CharAt(b, 1))

\* PurePath.__lt__: the lists of parts are compared
RECURSIVE PathLess(_, _)
PathLess(p, q) ==
    IF Len(q) = 0 THEN FALSE
    ELSE IF Len(p) = 0 THEN TRUE
    ELSE IF p[1] = q[1] THEN PathLess(Tail(p), Tail(q))
    ELSE StrLess(p[1], q[1])

\* mutant: the listing is put in descending order
RECURSIVE sorted_Descending(_)
sorted_Descending(S) ==
    IF S = {} THEN <<>>
    ELSE LET m == CHOOSE x \in S : \A y \in S \ {x} : PathLess(y, x)
         IN  <<m>> \o sorted_Descending(S \ {m})

\* line 95, sorted(pdf_files)
RECURSIVE sorted(_)
sorted(S) ==
    IF S = {} THEN <<>>
    ELSE LET m == CHOOSE x \in S : \A y \in S \ {x} : PathLess(x, y)
         IN  <<m>> \o sorted(S \ {m})

\* Path.name
PathName(p) == p[Len(p)]

\* Path.parent
Parent(p) == SubSeq(p, 1, Len(p) - 1)

\* mkdir(parents=True, exist_ok=True): the directory and its ancestors
Mkdir(dirs, d) == dirs \cup {SubSeq(d, 1, k) : k \in 1..Len(d)}

\* the exception of mkdir(parents=True, exist_ok=True), "none" when it succeeds:
\* the path is a regular file, or one of its ancestors is
MkdirError(files, d) ==
    IF d \in DOMAIN files THEN "FileExistsError"
    ELSE IF \E k \in 1..Len(d) : SubSeq(d, 1, k) \in DOMAIN files
    THEN "NotADirectoryError"
    ELSE "none"

\* the files of the disk merge_pdfs starts on: PDF documents and others
PdfDocuments ==
    { <<"docs", "b.pdf">>, <<"docs", "t.pdf">>, <<"docs", "C.PDF">>,
      <<"docs", "sub", "z.pdf">> }
NotPdfDocuments == { <<"docs", "bad.pdf">>, <<"docs", "notes.txt">> }
PdfDiskFiles == PdfDocuments \cup NotPdfDocuments
PdfDiskDirs == { <<"docs">>, <<"docs", "sub">>, <<"docs", "old.pdf">> }

\* a PDF document on the disk is made of itself; arg 0: it came from no path
PdfDisk ==
    [files |-> [p \in PdfDiskFiles |->
                   IF p \in PdfDocuments
                   THEN [pdf |-> TRUE, docs |-> <<[file |-> p, arg |-> 0]>>]
                   ELSE [pdf |-> FALSE, docs |-> <<>>]],
     dirs |-> PdfDiskDirs]

\* the paths a caller may pass: files, directories, a path that does not exist
InputPathChoices == PdfDiskFiles \cup PdfDiskDirs \cup { <<"gone.pdf">> }

\* the output paths a caller may pass: a new file in a directory of the disk,
\* a file in a directory to be made, a directory, a path under a regular file
OutputPathChoices ==
    { <<"docs", "out.pdf">>, <<"new", "out.pdf">>, <<"docs", "sub">>,
      <<"docs", "b.pdf", "out.pdf">> }

\* fnmatch of a name against the pattern "*.pdf" (line 71), case-sensitive
MatchesPattern(n) == Len(n) >= 4 /\ SubSeq(n, Len(n) - 3, Len(n)) = ".pdf"

\* lines 85-88: directory.rglob(pattern) or directory.glob(pattern)
Glob(disk, directory, rec) ==
    { p \in DOMAIN disk.files \cup disk.dirs :
        /\ Len(p) > Len(directory)
        /\ SubSeq(p, 1, Len(directory)) = directory
        /\ rec \/ Len(p) = Len(directory) + 1
        /\ MatchesPattern(PathName(p)) }

\* line 166: path.is_file() and path.suffix.lower() == '.pdf'
IsPdfFilePath(disk, path) ==
    path \in DOMAIN disk.files /\ lower(suffix(PathName(path))) = ".pdf"

\* add_file (lines 49-69): appends unless PdfReader rejects the file
add_file(disk, m, file_path, from) ==
    IF disk.files[file_path].pdf
    THEN Append(m, [file |-> file_path, arg |-> from])
    ELSE m

\* lines 166-170: a path that is a PDF file is added, an error is logged
AddFilePath ==
    /\ pc = "merge"
    /\ path_no <= Len(input_paths)
    /\ IsPdfFilePath(pdf_disk, input_paths[path_no])
    /\ merger' = add_file(pdf_disk, merger, input_paths[path_no], path_no)
    /\ path_no' = path_no + 1
    /\ UNCHANGED <<input_paths, output_path, recursive, pdf_files, pdf_disk,
                   merge_error, pc>>
    /\ UNCHANGED <<organizerVars, resizeVars>>

\* lines 171-172 and 80-95: a directory is listed and the listing sorted
AddDirectoryPath ==
    /\ pc = "merge"
    /\ path_no <= Len(input_paths)
    /\ ~IsPdfFilePath(pdf_disk, input_paths[path_no])
    /\ input_paths[path_no] \in pdf_disk.dirs
    /\ pdf_files' = sorted(Glob(pdf_disk, input_paths[path_no], recursive))
    /\ pc' = "add_directory"
    /\ UNCHANGED <<input_paths, output_path, recursive, path_no, merger, pdf_disk,
                   merge_error>>
    /\ UNCHANGED <<organizerVars, resizeVars>>

\* lines 95-100: one entry of the sorted listing
AddDirectoryEntry ==
    /\ pc = "add_directory"
    /\ pdf_files # <<>>
    /\ merger' = IF Head(pdf_files) \in DOMAIN pdf_disk.files
                 THEN add_file(pdf_disk, merger, Head(pdf_files), path_no)
                 ELSE merger
    /\ pdf_files' = Tail(pdf_files)
    /\ UNCHANGED <<input_paths, output_path, recursive, path_no, pdf_disk,
                   merge_error, pc>>
    /\ UNCHANGED <<organizerVars, resizeVars>>

\* add_directory returns (line 92, or the end of the loop of line 95)
AddDirectoryReturn ==
    /\ pc = "add_directory"
    /\ pdf_files = <<>>
    /\ pc' = "merge"
    /\ path_no' = path_no + 1
    /\ UNCHANGED <<input_paths, output_path, recursive, pdf_files, merger, pdf_disk,
                   merge_error>>
    /\ UNCHANGED <<organizerVars, resizeVars>>

\* lines 166, 171: a path that is neither a PDF file nor a directory
IgnorePath ==
    /\ pc = "merge"
    /\ path_no <= Len(input_paths)
    /\ ~IsPdfFilePath(pdf_disk, input_paths[path_no])
    /\ input_paths[path_no] \notin pdf_disk.dirs
    /\ path_no' = path_no + 1
    /\ UNCHANGED <<input_paths, output_path, recursive, pdf_files, merger, pdf_disk,
                   merge_error, pc>>
    /\ UNCHANGED <<organizerVars, resizeVars>>

\* lines 174 and 117: mkdir of the output's parent raises; it is outside the
\* try, so the exception leaves merge_pdfs with the merger still open
MergeMkdirRaises ==
    /\ pc = "merge"
    /\ path_no > Len(input_paths)
    /\ MkdirError(pdf_disk.files, Parent(output_path)) # "none"
    /\ merge_error' = MkdirError(pdf_disk.files, Parent(output_path))
    /\ pc' = "merge_raised"
    /\ UNCHANGED <<input_paths, output_path, recursive, path_no, pdf_files, merger,
                   pdf_disk>>
    /\ UNCHANGED <<organizerVars, resizeVars>>

\* lines 174, 117, 121 and 132-136: open(output_path, 'wb') raises because
\* the path is a directory; the exception is logged and raised again, and the
\* finally clause closes the merger, which empties it
MergeOpenRaises ==
    /\ pc = "merge"
    /\ path_no > Len(input_paths)
    /\ MkdirError(pdf_disk.files, Parent(output_path)) = "none"
    /\ output_path \in Mkdir(pdf_disk.dirs, Parent(output_path))
    /\ pdf_disk' = [pdf_disk EXCEPT !.dirs = Mkdir(@, Parent(output_path))]
    /\ merge_error' = "IsADirectoryError"
    /\ merger' = <<>>
    /\ pc' = "merge_raised"
    /\ UNCHANGED <<input_paths, output_path, recursive, path_no, pdf_files>>
    /\ UNCHANGED <<organizerVars, resizeVars>>

\* lines 174, 117-130 and 136: the parent directories are made, the appended
\* documents are written to output_path in their order (the file is created
\* or replaced), and the finally clause closes the merger, which empties it
MergeWrite ==
    /\ pc = "merge"
    /\ path_no > Len(input_paths)
    /\ MkdirError(pdf_disk.files, Parent(output_path)) = "none"
    /\ output_path \notin Mkdir(pdf_disk.dirs, Parent(output_path))
    /\ pdf_disk' =
          [files |-> [p \in DOMAIN pdf_disk.files \cup {output_path} |->
                         IF p = output_path
                         THEN [pdf |-> TRUE, docs |-> merger]
                         ELSE pdf_disk.files[p]],
           dirs |-> Mkdir(pdf_disk.dirs, Parent(output_path))]
    /\ merger' = <<>>
    /\ pc' = "merged"
    /\ UNCHANGED <<input_paths, output_path, recursive, path_no, pdf_files,
                   merge_error>>
    /\ UNCHANGED <<organizerVars, resizeVars>>

\* the organizer is not in use
InitOrganizerIdle ==
    /\ InitCall
    /\ pathKind = "dir"
    /\ root = EmptyDir
    /\ subdirs = EmptyDir
    /\ budget = [runs |-> 0, failures |-> 0, placed |-> 0]
    /\ arg = [order |-> TableOrder, extension |-> ""]
    /\ ret = ""

InputPathLists ==
    UNION {[1..n -> InputPathChoices] : n \in 1..MaxInputPaths}

\* line 161: a call of merge_pdfs
InitMerge ==
    /\ InitOrganizerIdle
    /\ pc = "merge"
    /\ InitResizerIdle
    /\ input_paths \in InputPathLists
    /\ output_path \in OutputPathChoices
    /\ recursive \in BOOLEAN
    /\ path_no = 1
    /\ pdf_files = <<>>
    /\ merger = <<>>
    /\ pdf_disk = PdfDisk
    /\ merge_error = "none"

NextMerge ==
    \/ AddFilePath
    \/ AddDirectoryPath
    \/ AddDirectoryEntry
    \/ AddDirectoryReturn
    \/ IgnorePath
    \/ MergeMkdirRaises
    \/ MergeOpenRaises
    \/ MergeWrite

SpecMerge == InitMerge /\ [][NextMerge]_vars

----------------------------------------------------------------------------
(* image_resizer.py: resize_images, ImageResizer.resize_image,              *)
(* ImageResizer.resize_directory.  A file's content is a number: 0 is not   *)
(* an image, the resized copy of content c is c + ResizedOffset.            *)

SUPPORTED_FORMATS == <<".jpg", ".jpeg", ".png", ".webp", ".bmp", ".tiff", ".gif">>

ResizedOffset == 10

\* str.upper() on one character
UpperChar(c) ==
    IF \E i \in 1..Len(LowerCase) : CharAt(LowerCase, i) = c
    THEN CharAt(UpperCase, CHOOSE i \in 1..Len(LowerCase) : CharAt(LowerCase, i) = c)
    ELSE c

RECURSIVE upper(_)
upper(s) == IF Len(s) = 0 THEN "" ELSE UpperChar(CharAt(s, 1)) \o upper(Tail(s))

EndsWith(n, e) == Len(n) >= Len(e) /\ SubSeq(n, Len(n) - Len(e) + 1, Len(n)) = e

\* lines 41-42: the ImageResizer object; <<>> and "" stand for None
ImageResizer(dir, format) == [output_dir |-> dir, output_format |-> upper(format)]

\* lines 49-52 of _validate_output_dir
OutputDirFor(r, input_path) ==
    IF r.output_dir # <<>> THEN r.output_dir ELSE Parent(input_path) \o <<"resized">>

\* _get_output_path, lines 60-67
_get_output_path(r, input_path, out_dir) ==
    LET ext == IF r.output_format # "" THEN "." \o lower(r.output_format)
               ELSE lower(suffix(PathName(input_path)))
    IN  out_dir \o << stem(PathName(input_path)) \o "_resized" \o ext >>

\* lines 99-100
OutputPathFor(r, input_path) ==
    _get_output_path(r, input_path, OutputDirFor(r, input_path))

\* line 104: Image.open accepts the file
IsImage(files, p) == files[p] # 0

\* lines 112-125: one of size, width, height, scale is given and not zero;
\* otherwise ValueError is raised (0 and <<>> stand for None too)
HasNewSize(kwargs) ==
    \/ kwargs.size # <<>>
    \/ kwargs.width # 0
    \/ kwargs.height # 0
    \/ kwargs.scale # 0

\* lines 102-156: the image is opened, the new size computed and the copy saved
Resizes(files, kwargs, input_path) == IsImage(files, input_path) /\ HasNewSize(kwargs)

\* lines 141-145, resized_img.save(output_path): the file is created or replaced
Save(files, out_path, content) ==
    [p \in DOMAIN files \cup {out_path} |->
        IF p = out_path THEN content ELSE files[p]]

\* resize_image, lines 94-156, as an effect on the files
resize_image(files, r, kwargs, input_path) ==
    IF Resizes(files, kwargs, input_path)
    THEN Save(files, OutputPathFor(r, input_path), files[input_path] + ResizedOffset)
    ELSE files

\* the position of a name's pattern in the loop of lines 182-187, 0 for none
FormatRank(n) ==
    LET hits == {i \in 1..Len(SUPPORTED_FORMATS) : EndsWith(n, SUPPORTED_FORMATS[i])}
    IN  IF hits = {} THEN 0 ELSE CHOOSE i \in hits : \A j \in hits : i <= j

\* lines 180-187: the files the patterns "*<ext>" match, listed before any is resized
ImageGlob(files, directory, rec) ==
    { p \in DOMAIN files :
        /\ Len(p) > Len(directory)
        /\ SubSeq(p, 1, Len(directory)) = directory
        /\ rec \/ Len(p) = Len(directory) + 1
        /\ FormatRank(PathName(p)) > 0 }

\* the disk resize_images starts on
ImageDisk ==
    [p \in { <<"pics", "a.jpg">>, <<"pics", "a_resized.jpg">>, <<"pics", "B.PNG">>,
             <<"pics", "notes.txt">>, <<"pics", "resized", "a_resized.jpg">> } |->
        CASE p = <<"pics", "a.jpg">> -> 1
          [] p = <<"pics", "a_resized.jpg">> -> 2
          [] p = <<"pics", "B.PNG">> -> 3
          [] p = <<"pics", "resized", "a_resized.jpg">> -> 4
          [] OTHER -> 0]

ImageDiskDirs == { <<"pics">>, <<"pics", "resized">>, <<"out">> }

\* the paths a caller may pass: files, a directory, a path that does not exist
ResizePathChoices ==
    { <<"pics", "a.jpg">>, <<"pics", "a_resized.jpg">>, <<"pics", "B.PNG">>,
      <<"pics", "notes.txt">>, <<"pics", "resized", "a_resized.jpg">>,
      <<"pics">>, <<"gone.jpg">> }

OutputDirChoices == { <<>>, <<"pics">>, <<"out">> }
OutputFormatChoices == { "", "png" }

\* the size arguments a caller may pass (lines 72-75); scale is in hundredths
NoSize == [size |-> <<>>, width |-> 0, height |-> 0, scale |-> 0]
KwargsChoices ==
    { NoSize, [NoSize EXCEPT !.width = 800], [NoSize EXCEPT !.scale = 50],
      [NoSize EXCEPT !.size = <<800, 600>>] }


\* lines 230-235: a path that is a file is resized, an error is logged
ResizeFilePath ==
    /\ pc = "resize"
    /\ path_ix <= Len(paths)
    /\ paths[path_ix] \in DOMAIN images
    /\ image_dirs' = Mkdir(image_dirs, OutputDirFor(resizer, paths[path_ix]))
    /\ images' = resize_image(images, resizer, resize_kwargs, paths[path_ix])
    /\ all_resized' = IF Resizes(images, resize_kwargs, paths[path_ix])
                      THEN Append(all_resized, OutputPathFor(resizer, paths[path_ix]))
                      ELSE all_resized
    /\ path_ix' = path_ix + 1
    /\ UNCHANGED <<paths, resizer, resize_kwargs, resize_recursive, image_paths, originals, pc>>
    /\ UNCHANGED <<organizerVars, mergeVars>>

\* lines 236-237 and 175-191: a directory is listed
ResizeDirectoryPath ==
    /\ pc = "resize"
    /\ path_ix <= Len(paths)
    /\ paths[path_ix] \notin DOMAIN images
    /\ paths[path_ix] \in image_dirs
    /\ image_paths' = ImageGlob(images, paths[path_ix], resize_recursive)
    /\ pc' = "resize_directory"
    /\ UNCHANGED <<paths, resizer, resize_kwargs, resize_recursive, path_ix, all_resized, images,
                   image_dirs, originals>>
    /\ UNCHANGED <<organizerVars, mergeVars>>

\* lines 195-200: the next entry of the listing, in the order of the patterns
ResizeDirectoryEntry(img_path) ==
    /\ pc = "resize_directory"
    /\ img_path \in image_paths
    /\ \A q \in image_paths : FormatRank(PathName(img_path)) <= FormatRank(PathName(q))
    /\ image_paths' = image_paths \ {img_path}
    /\ img_path \in DOMAIN images
    /\ image_dirs' = Mkdir(image_dirs, OutputDirFor(resizer, img_path))
    /\ images' = resize_image(images, resizer, resize_kwargs, img_path)
    /\ all_resized' = IF Resizes(images, resize_kwargs, img_path)
                      THEN Append(all_resized, OutputPathFor(resizer, img_path))
                      ELSE all_resized
    /\ UNCHANGED <<paths, resizer, resize_kwargs, resize_recursive, path_ix, originals, pc>>
    /\ UNCHANGED <<organizerVars, mergeVars>>

\* lines 191, 202 and 238: resize_directory returns
ResizeDirectoryReturn ==
    /\ pc = "resize_directory"
    /\ image_paths = {}
    /\ pc' = "resize"
    /\ path_ix' = path_ix + 1
    /\ UNCHANGED <<paths, resizer, resize_kwargs, resize_recursive, image_paths, all_resized, images,
                   image_dirs, originals>>
    /\ UNCHANGED <<organizerVars, mergeVars>>

\* lines 230, 236: a path that is neither a file nor a directory
ResizeIgnorePath ==
    /\ pc = "resize"
    /\ path_ix <= Len(paths)
    /\ paths[path_ix] \notin DOMAIN images
    /\ paths[path_ix] \notin image_dirs
    /\ path_ix' = path_ix + 1
    /\ UNCHANGED <<paths, resizer, resize_kwargs, resize_recursive, image_paths, all_resized, images,
                   image_dirs, originals, pc>>
    /\ UNCHANGED <<organizerVars, mergeVars>>

\* line 240
ResizeReturn ==
    /\ pc = "resize"
    /\ path_ix > Len(paths)
    /\ pc' = "resized"
    /\ UNCHANGED resizeVars
    /\ UNCHANGED <<organizerVars, mergeVars>>

ResizePathLists ==
    UNION {[1..n -> ResizePathChoices] : n \in 1..MaxResizePaths}

\* line 224: a call of resize_images
InitResize ==
    /\ InitOrganizerIdle
    /\ InitMergerIdle
    /\ pc = "resize"
    /\ paths \in ResizePathLists
    /\ \E dir \in OutputDirChoices, format \in OutputFormatChoices :
          resizer = ImageResizer(dir, format)
    /\ resize_recursive \in BOOLEAN
    /\ resize_kwargs \in KwargsChoices
    /\ path_ix = 1
    /\ image_paths = {}
    /\ all_resized = <<>>
    /\ images = ImageDisk
    /\ image_dirs = ImageDiskDirs
    /\ originals = ImageDisk

NextResize ==
    \/ ResizeFilePath
    \/ ResizeDirectoryPath
    \/ \E img_path \in image_paths : ResizeDirectoryEntry(img_path)
    \/ ResizeDirectoryReturn
    \/ ResizeIgnorePath
    \/ ResizeReturn

SpecResize == InitResize /\ [][NextResize]_vars

----------------------------------------------------------------------------
(* organize beside another process writing into the same tree (lines 129-138) *)

\* the content of a file the other process writes; no file of the tree has it
OtherProcessContent == 0

\* the names the other process may create in a category directory
OtherProcessNames == {"photo.jpg", "photo_1.jpg"}

\* lines 117-124 alone: the entry is classified and its category directory
\* made; the check of line 131 is still to come
PrepareDirectory(it) ==
    /\ pc = "loop"
    /\ it \in pending
    /\ ~ShouldSkip(subdirs, it)
    /\ LET cat == CategoryOf[it]
       IN  /\ subdirs' = IF NeedsMkdir(root, subdirs, cat, dry_run)
                         THEN [d \in DOMAIN subdirs \cup {cat} |->
                                  IF d = cat THEN EmptyDir ELSE subdirs[d]]
                         ELSE subdirs
           /\ category' = cat
    /\ item' = it
    /\ pending' = pending \ {it}
    /\ pc' = "check"
    /\ UNCHANGED <<toolVars, pathKind, instance, error, root, dry_run, dest_path,
                   moved_files, histVars, log, budget, classifyVars>>

\* lines 127-133 alone: dest_path is chosen against the directory as it is now
ResolveDestination ==
    /\ pc = "check"
    /\ dest_path' = DestName(subdirs, category, item, dry_run)
    /\ pc' = "move"
    /\ UNCHANGED <<toolVars, pathKind, instance, error, fsVars, dry_run, pending, item,
                   category, moved_files, histVars, log, budget, classifyVars>>

\* another process creates a file in a category directory while organize is
\* in its loop: before the directory is looked at (pc = "loop"), between
\* mkdir and the check of line 131 (pc = "check"), or between the check and
\* shutil.move of line 138 (pc = "move")
OtherProcessWrites(cat, n) ==
    /\ pc \in {"loop", "check", "move"}
    /\ budget.placed > 0
    /\ cat \in DOMAIN subdirs
    /\ n \notin DOMAIN subdirs[cat]
    /\ budget' = [budget EXCEPT !.placed = @ - 1]
    /\ subdirs' = MoveInto(subdirs, cat, n, OtherProcessContent)
    /\ UNCHANGED <<toolVars, pathKind, instance, error, root, pc, callVars, histVars,
                   log, classifyVars>>

InitInterleaved ==
    /\ InitCall
    /\ InitTools
    /\ pc = "new"
    /\ arg = [order |-> TableOrder, extension |-> ""]
    /\ ret = ""
    /\ pathKind = "dir"
    /\ root \in {RootOf({"photo.jpg"}), RootOf({"photo.jpg", ".env"}),
                 RootOf({"images", "photo.jpg"})}
    /\ subdirs \in {EmptyDir, [d \in {"images"} |-> [n \in {"photo.jpg"} |-> OldPhoto]]}
    /\ DOMAIN root \cap DOMAIN subdirs = {}
    /\ budget = [runs |-> MaxRuns, failures |-> MaxFailures,
                 placed |-> MaxOtherWrites]

\* beside another process the directory step and the check are two steps
NextInterleaved ==
    \/ OrganizerSteps
    \/ \E it \in pending : PrepareDirectory(it)
    \/ ResolveDestination
    \/ \E cat \in Categories, n \in OtherProcessNames : OtherProcessWrites(cat, n)

SpecInterleaved == InitInterleaved /\ [][NextInterleaved]_vars

----------------------------------------------------------------------------
(* Properties *)

Count(seq, n) == Cardinality({i \in 1..Len(seq) : seq[i] = n})

Listed(mf) == UNION {SeqToSet(mf[c]) : c \in DOMAIN mf}

Pairs(mf) == UNION {{<<mf[c][i], c>> : i \in 1..Len(mf[c])} : c \in DOMAIN mf}

EightKeys == {"images", "documents", "videos", "audio", "archives", "code",
              "executables", "other"}

InCall == pc \in {"loop", "move", "done"}

\* C8: _get_category returns, for an extension of the table, the one category
\* whose set holds it, and "other" for an extension of no set (the empty string
\* too); the sets are pairwise disjoint, and the result under any order of
\* examination is the result under the table's own order.
C8_ClassificationExact ==
    /\ \A i, j \in 1..Len(FILE_TYPES) :
          i # j => FILE_TYPES[i].extensions \cap FILE_TYPES[j].extensions = {}
    /\ pc = "classified" =>
          /\ arg.extension \in TableExtensions =>
                /\ \E i \in 1..Len(FILE_TYPES) :
                      /\ FILE_TYPES[i].category = ret
                      /\ arg.extension \in FILE_TYPES[i].extensions
                /\ \A i \in 1..Len(FILE_TYPES) :
                      arg.extension \in FILE_TYPES[i].extensions
                          => FILE_TYPES[i].category = ret
          /\ arg.extension \notin TableExtensions => ret = "other"
          /\ ret = _get_category(arg.extension)

C8_Witness ==
    /\ pc = "classified"
    /\ arg.order = Reverse(TableOrder)
    /\ arg.extension = ".h"
    /\ ret = "code"

\* what C1 states of a finished apply call in which no move failed, up to
\* what is left in the root
AllFilesMoved ==
    /\ \A n \in Organizable(before.root) :
          /\ n \notin DOMAIN root
          /\ CategoryOf[n] \in DOMAIN subdirs
          /\ n \in DOMAIN dests
          /\ dests[n] \in DOMAIN subdirs[CategoryOf[n]]
          /\ subdirs[CategoryOf[n]][dests[n]] = before.root[n]
          /\ \A c \in EightKeys :
                Count(moved_files[c], n) = IF c = CategoryOf[n] THEN 1 ELSE 0
    /\ Listed(moved_files) = Organizable(before.root)
    /\ DOMAIN before.root = ScenarioNames /\ before.subdirs = EmptyDir =>
          /\ SeqToSet(moved_files["images"]) = {"a.jpg", "b.JPG"}
          /\ SeqToSet(moved_files["documents"]) = {"report.pdf", "notes.txt"}
          /\ SeqToSet(moved_files["archives"]) = {"archive.zip"}
          /\ SeqToSet(moved_files["code"]) = {"script.py"}
          /\ SeqToSet(moved_files["other"]) = {"README"}
          /\ moved_files["videos"] = <<>>
          /\ moved_files["audio"] = <<>>
          /\ moved_files["executables"] = <<>>
          /\ DOMAIN subdirs = {"images", "documents", "archives", "code", "other"}
          /\ DOMAIN root = {}

\* C1 as stated: after an apply call in which no move failed, every file of
\* the root whose name does not start with "." is under its category's
\* directory and listed once under that category, and the root retains only
\* subdirectories.
C1_RootRetainsOnlySubdirs ==
    (pc = "done" /\ ~dry_run /\ failed = {}) =>
        /\ AllFilesMoved
        /\ DOMAIN root = {}

\* C1 amended: ... and the root retains only subdirectories and the entries
\* whose name starts with ".".
C1_ApplyMovesEveryFile ==
    (pc = "done" /\ ~dry_run /\ failed = {}) =>
        /\ AllFilesMoved
        /\ \A n \in DOMAIN root : IsHidden(n) /\ root[n] = before.root[n]

C1_Witness ==
    /\ pc = "done"
    /\ ~dry_run
    /\ failed = {}
    /\ DOMAIN before.root = ScenarioNames
    /\ moved_files["images"] = <<"b.JPG", "a.jpg">>
    /\ DOMAIN subdirs["images"] = {"a.jpg", "b.JPG"}

\* C2: in apply mode the destination name is the file's own name when that
\* is unused in the category directory, and otherwise <stem>_<N><suffix> for
\* the smallest N >= 1 whose name is unused there; no file of a subdirectory,
\* present when the call started or arrived during it, is replaced or removed.
C2_CollisionSuffix ==
    /\ (pc = "move" /\ ~dry_run /\ category \in DOMAIN subdirs) =>
          LET used == DOMAIN subdirs[category]
          IN  /\ dest_path \notin used
              /\ item \notin used => dest_path = item
              /\ item \in used =>
                    \E N \in 1..Cardinality(used) :
                       /\ dest_path = stem(item) \o "_" \o ToString(N) \o suffix(item)
                       /\ \A k \in 1..(N - 1) :
                             (stem(item) \o "_" \o ToString(k) \o suffix(item)) \in used
    /\ (InCall /\ ~dry_run) =>
          /\ \A d \in DOMAIN before.subdirs :
                /\ d \in DOMAIN subdirs
                /\ \A f \in DOMAIN before.subdirs[d] :
                      /\ f \in DOMAIN subdirs[d]
                      /\ subdirs[d][f] = before.subdirs[d][f]
          /\ \A n \in DOMAIN dests :
                /\ dests[n] \in DOMAIN subdirs[CategoryOf[n]]
                /\ subdirs[CategoryOf[n]][dests[n]] = before.root[n]
                /\ ~DestExists(before.subdirs, CategoryOf[n], dests[n])

C2_Witness ==
    /\ pc = "done"
    /\ ~dry_run
    /\ before.subdirs = [d \in {"images"} |-> [n \in {"photo.jpg"} |-> OldPhoto]]
    /\ "photo.jpg" \in DOMAIN before.root
    /\ subdirs["images"]["photo.jpg"] = OldPhoto
    /\ "photo_1.jpg" \in DOMAIN subdirs["images"]
    /\ subdirs["images"]["photo_1.jpg"] = before.root["photo.jpg"]

\* C3: a dry run leaves the tree as it was: the root's files and every
\* subdirectory's entries are those of the start of the call.
C3_DryRunNoMutation ==
    (dry_run /\ pc \in {"loop", "move", "done", "raised"}) => Tree = before

C3_Witness ==
    /\ pc = "done"
    /\ dry_run
    /\ "photo.jpg" \in SeqToSet(moved_files["images"])
    /\ "README" \in SeqToSet(moved_files["other"])
    /\ "other" \notin DOMAIN subdirs
    /\ DestExists(subdirs, "images", "photo.jpg")

\* C4: in an apply call a file whose move failed stays in the root with its
\* content and is not listed; a file whose move succeeded is out of the root,
\* under its category and listed, whatever failed before or after it; when
\* the call returns each file of the scan has had exactly one move attempt.
C4_FailureIsolated ==
    /\ (InCall /\ ~dry_run) =>
          /\ \A n \in failed :
                /\ n \in DOMAIN root
                /\ root[n] = before.root[n]
                /\ n \notin Listed(moved_files)
          /\ \A n \in DOMAIN dests :
                /\ n \notin DOMAIN root
                /\ n \notin failed
                /\ n \in SeqToSet(moved_files[CategoryOf[n]])
                /\ subdirs[CategoryOf[n]][dests[n]] = before.root[n]
          /\ \A n \in DOMAIN attempts : attempts[n] <= 1
    /\ (pc = "done" /\ ~dry_run) =>
          \A n \in Organizable(before.root) :
             /\ attempts[n] = 1
             /\ n \in failed \/ n \in DOMAIN dests

C4_Witness ==
    /\ pc = "done"
    /\ ~dry_run
    /\ failed = {"README"}
    /\ DOMAIN dests = {"photo.jpg", "b.JPG"}
    /\ moved_files["images"] = <<"photo.jpg", "b.JPG">>

OrganizeAt(k) == k \in 1..Len(log) /\ log[k].kind = "organize"

Returned(k) == OrganizeAt(k) /\ log[k].outcome = "returned"

\* C5: of two apply calls in succession on the same directory, the second
\* finds no organizable file in the root, moves nothing, returns an empty
\* sequence for every category and leaves the tree as the first left it.
C5_SecondRunEmpty ==
    \A k \in 1..(Len(log) - 1) :
       (/\ Returned(k) /\ ~log[k].dry_run
        /\ Returned(k + 1) /\ ~log[k + 1].dry_run) =>
           /\ Organizable(log[k + 1].before.root) = {}
           /\ log[k + 1].dests = EmptyDir
           /\ log[k + 1].result = EmptyResult
           /\ log[k + 1].after = log[k].after

\* no two files of the root would get the same destination name
NoSiblingCollision(t) ==
    \A n1, n2 \in Organizable(t.root) :
       (n1 # n2 /\ CategoryOf[n1] = CategoryOf[n2]) =>
           DestName(t.subdirs, CategoryOf[n1], n1, FALSE)
               # DestName(t.subdirs, CategoryOf[n2], n2, FALSE)

\* C6: when no two root files collide on a destination name, the
\* (name, category) pairs a dry run returns are those the apply call that
\* follows it on the unmodified directory returns, whatever the order in
\* which the directory is listed.
C6_PreviewEqualsApply ==
    \A k \in 1..(Len(log) - 1) :
       (/\ Returned(k) /\ log[k].dry_run
        /\ Returned(k + 1) /\ ~log[k + 1].dry_run
        /\ log[k + 1].before = log[k].before
        /\ NoSiblingCollision(log[k].before)) =>
           Pairs(log[k].result) = Pairs(log[k + 1].result)

\* the constructor raised: there is no organizer, and nothing was done
NothingDone ==
    /\ ~instance
    /\ pc \in {"new", "failed"}
    /\ log = <<>>
    /\ budget.runs = MaxRuns
    /\ moved_files = EmptyDir
    /\ pending = {}

\* C7 as stated: the constructor fails with DirectoryNotFoundError when the
\* path does not exist and with NotADirectoryError when it is not a directory,
\* and then no organizer is obtained and nothing is scanned, created or moved.
C7_DirectoryNotFoundError ==
    /\ pathKind # "dir" => NothingDone
    /\ (pathKind = "missing" /\ pc = "failed") => error = "DirectoryNotFoundError"
    /\ (pathKind = "file" /\ pc = "failed") => error = "NotADirectoryError"

\* C7 amended: the constructor fails with FileNotFoundError when the path
\* does not exist and with NotADirectoryError when it is not a directory, and
\* then no organizer is obtained and nothing is scanned, created or moved.
C7_ConstructorRejects ==
    /\ pathKind # "dir" => NothingDone
    /\ (pathKind = "missing" /\ pc = "failed") => error = "FileNotFoundError"
    /\ (pathKind = "file" /\ pc = "failed") => error = "NotADirectoryError"
    /\ pc = "failed" => pathKind # "dir"
    /\ (pathKind = "dir" /\ pc # "new") => instance

C7_Witness ==
    /\ pathKind = "file"
    /\ pc = "failed"
    /\ error = "NotADirectoryError"
    /\ ~instance

\* C9: the mapping organize builds and returns has exactly the eight keys;
\* when the root holds no organizable entry every key maps to the empty
\* sequence and the tree is as it was.
C9_EightKeys ==
    InCall =>
        /\ DOMAIN moved_files = EightKeys
        /\ Organizable(before.root) = {} =>
              /\ \A c \in EightKeys : moved_files[c] = <<>>
              /\ Tree = before

C9_Witness ==
    /\ pc = "done"
    /\ ~dry_run
    /\ DOMAIN before.root = {".env"}
    /\ "stuff" \in DOMAIN before.subdirs
    /\ moved_files["other"] = <<>>

\* the calls of the log in which a file named n reached its category directory
ArrivalCalls(n) == {k \in 1..Len(log) : OrganizeAt(k) /\ n \in DOMAIN log[k].dests}

SuffixRange == 1..(Len(log) + Cardinality(Names))

IsSuffixed(n, d, N) == d = stem(n) \o "_" \o ToString(N) \o suffix(n)

\* 0 for the name itself, N for <stem>_<N><suffix>
SuffixNo(n, d) == IF d = n THEN 0 ELSE CHOOSE N \in SuffixRange : IsSuffixed(n, d, N)

\* the destination directory of call k held, when the call started, nothing
\* but the earlier arrivals of n, and n is alone in its category in that call
OnlyArrivalsOf(n, k) ==
    /\ \A m \in Organizable(log[k].before.root) : CategoryOf[m] = CategoryOf[n] => m = n
    /\ LET sd == log[k].before.subdirs
           held == IF CategoryOf[n] \in DOMAIN sd THEN DOMAIN sd[CategoryOf[n]] ELSE {}
       IN  held = {log[j].dests[n] : j \in {i \in ArrivalCalls(n) : i < k}}

\* C10: over repeated apply calls with a file of the same name put into the
\* root again before each, the destination names are the name itself or
\* <stem>_<N><suffix>, with N strictly increasing from call to call; no call
\* takes a name already present at the destination, every earlier arrival is
\* still in the destination directory with its content, and into a directory
\* that holds nothing but those arrivals the names are <name>, <stem>_1,
\* <stem>_2, ... in turn.  (The log grows only when a call ends, so the
\* formula is evaluated in the states that end one.)
C10_IncreasingSuffixes ==
    pc \in {"done", "raised"} =>
    \A n \in Names :
       \A k \in ArrivalCalls(n) :
          LET d == log[k].dests[n]
              c == CategoryOf[n]
          IN  /\ d = n \/ \E N \in SuffixRange : IsSuffixed(n, d, N)
              /\ ~DestExists(log[k].before.subdirs, c, d)
              /\ d \in DOMAIN log[k].after.subdirs[c]
              /\ \A j \in ArrivalCalls(n) :
                    j < k =>
                       /\ SuffixNo(n, log[j].dests[n]) < SuffixNo(n, d)
                       /\ log[j].dests[n] \in DOMAIN log[k].after.subdirs[c]
                       /\ log[k].after.subdirs[c][log[j].dests[n]] = log[j].before.root[n]
              /\ OnlyArrivalsOf(n, k) =>
                    SuffixNo(n, d) = Cardinality({i \in ArrivalCalls(n) : i < k})

C10_Witness ==
    /\ Len(log) = 5
    /\ ArrivalCalls("photo.jpg") = {1, 3, 5}
    /\ log[1].before.subdirs = EmptyDir
    /\ log[1].dests["photo.jpg"] = "photo.jpg"
    /\ log[3].dests["photo.jpg"] = "photo_1.jpg"
    /\ log[5].dests["photo.jpg"] = "photo_2.jpg"
    /\ DOMAIN subdirs["images"] = {"photo.jpg", "photo_1.jpg", "photo_2.jpg"}
    /\ Cardinality({subdirs["images"][f] : f \in DOMAIN subdirs["images"]}) = 3

\* C11: an apply call touches only the regular files of the root whose name
\* does not start with ".": every subdirectory present at the start is still
\* there, every file in one keeps its name and content (a category directory
\* already there is reused, it only gains entries; any other subdirectory is
\* exactly as it was), every hidden root entry stays with its content, and
\* only organizable root files are listed.
C11_OnlyRootFilesTouched ==
    (~dry_run /\ pc \in {"loop", "move", "done", "raised"}) =>
        /\ \A d \in DOMAIN before.subdirs :
              /\ d \in DOMAIN subdirs
              /\ d \notin DOMAIN root
              /\ \A f \in DOMAIN before.subdirs[d] :
                    /\ f \in DOMAIN subdirs[d]
                    /\ subdirs[d][f] = before.subdirs[d][f]
              /\ d \notin EightKeys => subdirs[d] = before.subdirs[d]
              /\ d \notin Listed(moved_files)
        /\ \A n \in DOMAIN before.root :
              IsHidden(n) =>
                 /\ n \in DOMAIN root
                 /\ root[n] = before.root[n]
                 /\ n \notin Listed(moved_files)
                 /\ n \notin DOMAIN dests
                 /\ attempts[n] = 0
        /\ Listed(moved_files) \subseteq Organizable(before.root)
        /\ DOMAIN dests \subseteq Organizable(before.root)

C11_Witness ==
    /\ pc = "done"
    /\ ~dry_run
    /\ DOMAIN before.root = {"README", ".env", "photo.jpg"}
    /\ DOMAIN before.subdirs = {"stuff", "other"}
    /\ DOMAIN subdirs = {"stuff", "other", "images"}
    /\ DOMAIN subdirs["other"] = {"README"}
    /\ subdirs["stuff"] = before.subdirs["stuff"]
    /\ DOMAIN root = {".env"}

\* the documents of the output file, in the order they were written
Merged == pdf_disk.files[output_path].docs

\* C12 (as stated): the documents are appended in the sorted order of their
\* names, whatever the order in which the paths were given.
C12_NameSortedOrder ==
    pc = "merged" =>
        \A i, j \in 1..Len(Merged) :
            i < j => ~StrLess(PathName(Merged[j].file), PathName(Merged[i].file))

\* the PDF documents a given path contributes
DocumentsOf(path) ==
    { f \in PdfDocuments :
        \/ f = path /\ lower(suffix(PathName(f))) = ".pdf"
        \/ /\ path \in PdfDiskDirs
           /\ Len(f) > Len(path)
           /\ \A k \in 1..Len(path) : f[k] = path[k]
           /\ recursive \/ Len(f) = Len(path) + 1
           /\ MatchesPattern(PathName(f)) }

\* C12 (amended): the documents are written path by path in the order the
\* paths were given; a file path contributes itself, a directory path
\* contributes its PDF files in the sorted order of their paths.
C12_GivenOrderSortedWithinDirectory ==
    pc = "merged" =>
        /\ \A i, j \in 1..Len(Merged) :
              i < j =>
                 /\ Merged[i].arg <= Merged[j].arg
                 /\ Merged[i].arg = Merged[j].arg =>
                        PathLess(Merged[i].file, Merged[j].file)
        /\ \A k \in 1..Len(input_paths) :
              {Merged[i].file : i \in {n \in 1..Len(Merged) : Merged[n].arg = k}}
                 = DocumentsOf(input_paths[k])

C12_Witness ==
    /\ pc = "merged"
    /\ recursive
    /\ input_paths = << <<"docs", "t.pdf">>, <<"docs">> >>
    /\ output_path = <<"new", "out.pdf">>
    /\ merger = <<>>
    /\ <<"new">> \in pdf_disk.dirs
    /\ Len(Merged) = 4
    /\ Merged[1].file = <<"docs", "t.pdf">>
    /\ Merged[2].file = <<"docs", "b.pdf">>
    /\ Merged[3].file = <<"docs", "sub", "z.pdf">>
    /\ Merged[4].file = <<"docs", "t.pdf">>

\* the files a call of resize_images takes as input: the file paths given and
\* the files the listing of a given directory yields
ResizeInputs ==
    { p \in DOMAIN originals :
        \E k \in 1..Len(paths) :
            \/ p = paths[k]
            \/ /\ paths[k] \in ImageDiskDirs
               /\ p \in ImageGlob(originals, paths[k], resize_recursive) }

\* C13: resize_images never changes an input: every resized copy is written to
\* a path that is not the path of an input file of the call, and every input
\* file has the content it had before the call.
C13_InputsNeverMutated ==
    pc \in {"resize", "resize_directory", "resized"} =>
        /\ \A k \in 1..Len(all_resized) : all_resized[k] \notin ResizeInputs
        /\ \A p \in ResizeInputs : p \in DOMAIN images /\ images[p] = originals[p]

\* C14: when a preview call processes a file whose name exists in its category
\* directory, the destination name it computes and reports is the suffixed
\* name <stem>_<N><suffix> an apply call on the same tree would use, a name
\* that is not in the directory.
C14_PreviewReportsSuffixedName ==
    (pc = "move" /\ dry_run /\ DestExists(subdirs, category, item)) =>
        /\ ~DestExists(subdirs, category, dest_path)
        /\ \E N \in SuffixRange : IsSuffixed(item, dest_path, N)
        /\ dest_path = DestName(subdirs, category, item, FALSE)

\* C15: once the organizer is constructed no exception leaves organize: every
\* call under way or finished has raised nothing.
C15_OrganizeNeverRaises ==
    instance =>
        /\ pc # "raised"
        /\ error = "none"
        /\ \A k \in 1..Len(log) : log[k].kind = "organize" => log[k].outcome = "returned"

\* the files of the subdirectories: (directory, name) pairs
SubdirFiles(sd) == UNION {{<<d, f>> : f \in DOMAIN sd[d]} : d \in DOMAIN sd}

\* this step removes the file or replaces its content
Clobbered(d, f) ==
    \/ d \notin DOMAIN subdirs'
    \/ f \notin DOMAIN subdirs'[d]
    \/ subdirs'[d][f] # subdirs[d][f]

ClobbersOnlyRacingWrites ==
    \A e \in SubdirFiles(subdirs) :
        Clobbered(e[1], e[2]) =>
            /\ pc = "move"
            /\ ~dry_run
            /\ e = <<category, dest_path>>
            /\ subdirs[e[1]][e[2]] = OtherProcessContent
            /\ subdirs'[e[1]][e[2]] = root[item]

\* C16: the check of line 131 and the move of line 138 are not atomic: a file
\* another process creates under the chosen name between the two is replaced
\* by the move; no other file of a subdirectory is ever replaced or removed,
\* so without the other process no destination file is overwritten.
C16_OverwriteOnlyByRace == [][ClobbersOnlyRacingWrites]_vars

\* the other process has written, organize has moved a file, and the file of
\* the other process is gone: the move went onto it
C16_Witness ==
    /\ pc = "loop"
    /\ ~dry_run
    /\ budget.placed = MaxOtherWrites - 1
    /\ "photo.jpg" \in DOMAIN dests
    /\ dests["photo.jpg"] = "photo_1.jpg"
    /\ subdirs["images"]["photo.jpg"] = OldPhoto
    /\ subdirs["images"]["photo_1.jpg"] = RootContent("photo.jpg")
    /\ \A e \in SubdirFiles(subdirs) : subdirs[e[1]][e[2]] # OtherProcessContent

\* the contents of the regular files of a tree
Contents(t) ==
    {t.root[n] : n \in DOMAIN t.root}
    \cup {t.subdirs[e[1]][e[2]] : e \in SubdirFiles(t.subdirs)}

\* how many regular files of a tree have the content
Occurrences(t, c) ==
    Cardinality({n \in DOMAIN t.root : t.root[n] = c})
    + Cardinality({e \in SubdirFiles(t.subdirs) : t.subdirs[e[1]][e[2]] = c})

\* the same multiset of files by content
SameFiles(t0, t1) ==
    \A c \in Contents(t0) \cup Contents(t1) : Occurrences(t0, c) = Occurrences(t1, c)

\* a file that was in the root is still there under its name, or in one
\* category directory
InPlaceOrMoved(t0, t1) ==
    \A n \in DOMAIN t0.root :
        \/ n \in DOMAIN t1.root /\ t1.root[n] = t0.root[n]
        \/ \E e \in SubdirFiles(t1.subdirs) :
              /\ e[1] \in EightKeys
              /\ t1.subdirs[e[1]][e[2]] = t0.root[n]

\* C17: through any sequence of organize calls with exclusive access, dry or
\* not, with failing moves and with root files named like a category, the
\* multiset of regular files by content stays what it was: none is lost,
\* duplicated or overwritten, each is in the root where it was or in one
\* category directory, and a name listed by an apply call is not in the root.
C17_FilesConserved ==
    /\ pc \in {"loop", "move", "done", "raised"} =>
          /\ SameFiles(before, Tree)
          /\ InPlaceOrMoved(before, Tree)
          /\ ~dry_run => Listed(moved_files) \cap DOMAIN root = {}
    /\ \A k \in 1..Len(log) :
          log[k].kind = "organize" =>
             /\ SameFiles(log[k].before, log[k].after)
             /\ SameFiles(log[1].before, log[k].after)
             /\ InPlaceOrMoved(log[k].before, log[k].after)

====
